---- MODULE Spec2Model ----
(***************************************************************************)
(* The client half of the real-time layer: SocketService                    *)
(* (src/unnamed/part_000), the singleton that owns the socket.io session,   *)
(* the connection flags, the attempt counter and the publish/subscribe      *)
(* table of the UI modules.                                                 *)
(*                                                                          *)
(* On top of it the ViewingProvider                                         *)
(* (src/frontend/src/contexts/ViewingContext.tsx): the presence cache its   *)
(* reducer keeps, its two effects and its startViewing and stopViewing.     *)
(*                                                                          *)
(* JavaScript runs one handler at a time, so every public method, every     *)
(* transport event handler and every timer callback is one atomic action.   *)
(* The token of connect(token) is only passed through to the session's auth *)
(* option and is never read again by the client, so it is not kept.         *)
(***************************************************************************)
EXTENDS Integers, Sequences, FiniteSets, TLC

\* ------------------------------------------------------------------ bounds
MaxSessions == 2      \* sessions io() may open in one run
MaxHandlers == 3      \* transport handlers per wire event on one session
MaxTimers   == 1      \* pending forceReconnect timeouts
MaxRegs     == 1      \* registrations in the listener table (lifecycle runs)
MaxRouterRegs == 4    \* registrations in the listener table (router runs)
MaxList     == 1      \* viewers in the list of one file-viewers-updated event
MaxSocketIds == 2     \* connections one user's viewer entries may come from
MaxClock    == 1      \* distinct readings of the clock after the first

\* ------------------------------------------------------- program constants
maxReconnectAttempts == 5

\* reconnectionAttempts option handed to io(): the transport makes the first
\* attempt and then at most this many retries before it gives up.
reconnectionAttempts == maxReconnectAttempts

\* ------------------------------------------------------------- vocabulary
Files == {"A", "B"}

\* Wire events the server sends, and the local class each is re-dispatched as.
WireEvents == {"file-viewers-updated", "new-file-uploaded"}

LocalClass(w) ==
    IF w = "new-file-uploaded" THEN "fileListUpdated" ELSE w

Classes == {LocalClass(w) : w \in WireEvents}

\* The subscribers' callbacks, named by what they do when invoked:
\*   plain    returns; thrower throws; offSelf calls off(class, itself);
\*   onPlain  calls on(class, plain).
Callbacks == {"plain", "thrower", "offSelf", "onPlain"}

\* The callbacks that change the listener table while a dispatch is running.
Reentrant == {"offSelf", "onPlain"}

\* The callbacks registered in the runs that explore the connection lifecycle.
LifecycleCallbacks == {"plain"}

VARIABLES
    socket,              \* this.socket: 0 (null) or the index of a session
    sessions,            \* every session io() has opened, in order
    isConnected,
    isConnecting,
    connectionAttempts,
    listeners,           \* this.listeners: class -> sequence of callbacks
    timers,              \* pending setTimeout callbacks of forceReconnect
    forced,              \* observation: forceReconnect was called since the
                         \* attempt counter reached its maximum
    cycle,               \* observation: "dropped" after a transport disconnect,
                         \* "reconnected" after the connect that follows it,
                         \* "none" again once the table is edited, the client
                         \* tears down, or the next inbound event has arrived
    lastOp,              \* observation: what the last handler did
    view,                \* ViewingProvider: the state useReducer holds
    now,                 \* what new Date() returns
    red,                 \* observation: the last call of viewingReducer
    lastStart,           \* observation: per file and user, the socketId of the
                         \* viewer entry of the user's last start, 0 after a
                         \* stop or when there was none
    provider             \* ViewingProvider: what its last render and its
                         \* effects hold, and the effect steps still to run

serviceVars == <<socket, sessions, isConnected, isConnecting,
                 connectionAttempts, listeners, timers, forced, cycle, lastOp>>

viewVars == <<view, now, red, lastStart, provider>>

vars == <<socket, sessions, isConnected, isConnecting, connectionAttempts,
          listeners, timers, forced, cycle, lastOp, view, now, red, lastStart,
          provider>>

\* The classes the ViewingProvider subscribes to; their wire events have the
\* same names.
ViewClasses == {"file-viewers-updated", "user-started-viewing-file",
                "user-stopped-viewing-file"}

\* The handlers the listener effect of the ViewingProvider registers.
ProviderHandlers == {"handleFileViewersUpdated", "handleUserStartedViewing",
                     "handleUserStoppedViewing"}

AllClasses == Classes \cup ViewClasses

\* ---------------------------------------------------------------- helpers
NoListeners == [c \in AllClasses |-> <<>>]

TotalRegs(L) ==
    LET RECURSIVE Sum(_)
        Sum(S) == IF S = {} THEN 0
                  ELSE LET c == CHOOSE x \in S : TRUE
                       IN Len(L[c]) + Sum(S \ {c})
    IN Sum(AllClasses)

\* A session as io() returns it: first attempt under way, no handler yet;
\* fails counts the attempts that failed since it last connected.
NewSession == [st |-> "opening", fails |-> 0, handlers |-> 0, buf |-> <<>>]

\* A session that is connected or will still try to connect by itself.
Live(s) == sessions[s].st \in {"opening", "connected"}

SocketConnected == socket # 0 /\ sessions[socket].st = "connected"

Op(name) ==
    [op |-> name, class |-> "", cb |-> "", sess |-> 0, wasConnected |-> FALSE,
     msg |-> <<>>, emitted |-> <<>>, opened |-> FALSE, dispatches |-> <<>>,
     afterCycle |-> FALSE, toast |-> <<>>]

\* The attempt counter has reached the maximum.
PermFailed == connectionAttempts >= maxReconnectAttempts

\* ---------------------------------------------------------- pure methods
shouldReconnect ==
    /\ ~isConnected
    /\ ~isConnecting
    /\ connectionAttempts < maxReconnectAttempts

connected == isConnected /\ SocketConnected

\* ------------------------------------------------------ the transport side
\* socket.emit(name, payload) of socket.io: sent at once on a connected
\* session, otherwise kept in the session's send buffer until it connects.
\* Returns the sessions afterwards and what went out on the wire.
SocketEmit(S, s, msg) ==
    IF S[s].st = "connected"
    THEN [sessions |-> S, wire |-> <<msg>>]
    ELSE [sessions |-> [S EXCEPT ![s].buf = Append(@, msg)], wire |-> <<>>]

\* setupEventListeners(): one more handler per wire event on this.socket.
setupEventListeners(S, sock) ==
    IF sock = 0 THEN S ELSE [S EXCEPT ![sock].handlers = @ + 1]

\* reregisterListeners(): the same, behind the same null check.
reregisterListeners(S, sock) ==
    IF sock = 0 THEN S ELSE setupEventListeners(S, sock)

\* ------------------------------------------------------------------ toasts
\* What each lifecycle handler shows the user, as the sequence of toasts of
\* one run of the handler.
ConnectToast == <<"success: Connected to real-time server">>

\* A faulty 'disconnect' handler: never tells the user.
DisconnectSilent(reason) == <<>>

\* The 'disconnect' handler: an error toast unless the client closed the
\* session itself.
DisconnectToast(reason) ==
    IF reason # "io client disconnect"
    THEN <<"error: Disconnected from real-time server">>
    ELSE <<>>

\* The 'connect_error' handler, with the attempt counter as it has just
\* incremented it.
ConnectErrorToast(attempts) ==
    IF attempts >= maxReconnectAttempts
    THEN <<"error: Failed to connect to real-time server">>
    ELSE <<>>

ReconnectFailedToast == <<"error: Failed to reconnect to real-time server">>

\* socket.removeAllListeners(): the handlers left on a session that had h.
removeAllListeners(h) == h - h

\* What disconnect() shows: socket.disconnect() raises 'disconnect' with the
\* reason "io client disconnect" on a connected session, for the handlers
\* that removeAllListeners() has left on it.
TeardownToast ==
    IF /\ socket # 0
       /\ sessions[socket].st = "connected"
       /\ removeAllListeners(sessions[socket].handlers) > 0
    THEN DisconnectToast("io client disconnect")
    ELSE <<>>

\* ---------------------------------------------------------------- connect
\* The early return of connect(): an attempt the flags know of, or a
\* connected this.socket.
ConnectGuard == isConnecting \/ SocketConnected

\* The body of connect(token), shared by connect and the forceReconnect timer.
ConnectBody(name) ==
    IF ConnectGuard
    THEN /\ lastOp' = Op(name)
         /\ UNCHANGED <<socket, sessions, isConnected, isConnecting,
                        connectionAttempts, listeners>>
    ELSE /\ Len(sessions) < MaxSessions
         /\ isConnecting' = TRUE
         /\ socket' = Len(sessions) + 1
         /\ sessions' = setupEventListeners(
                            Append(sessions, NewSession),
                            Len(sessions) + 1)
         /\ lastOp' = [Op(name) EXCEPT !.opened = TRUE, !.sess = Len(sessions) + 1]
         /\ UNCHANGED <<isConnected, connectionAttempts, listeners>>

Connect ==
    /\ ConnectBody("connect")
    /\ UNCHANGED <<timers, forced, cycle>>

\* ------------------------------------------------------------- disconnect
\* The body of disconnect(): everything happens only when this.socket is set.
DisconnectBody ==
    IF socket # 0
    THEN /\ isConnected' = FALSE
         /\ isConnecting' = FALSE
         /\ sessions' = [sessions EXCEPT ![socket].handlers = 0,
                                         ![socket].st = "closed",
                                         ![socket].buf = <<>>]
         /\ socket' = 0
         /\ listeners' = NoListeners
    ELSE UNCHANGED <<isConnected, isConnecting, sessions, socket, listeners>>

Disconnect ==
    /\ DisconnectBody
    /\ lastOp' = [Op("disconnect") EXCEPT !.sess = socket,
                                          !.toast = TeardownToast]
    /\ cycle' = "none"
    /\ UNCHANGED <<connectionAttempts, timers, forced>>

\* forceReconnect(token): disconnect(), then connect(token) 1000 ms later.
ForceReconnect ==
    /\ timers < MaxTimers
    /\ DisconnectBody
    /\ timers' = timers + 1
    /\ lastOp' = [Op("forceReconnect") EXCEPT !.sess = socket,
                                              !.toast = TeardownToast]
    /\ cycle' = "none"
    /\ forced' = PermFailed
    /\ UNCHANGED connectionAttempts

\* The setTimeout callback of forceReconnect.
TimerFires ==
    /\ timers > 0
    /\ timers' = timers - 1
    /\ ConnectBody("timer")
    /\ UNCHANGED <<forced, cycle>>

\* ------------------------------------------------- transport event handlers
\* The handlers connect() attaches to the session. Its 'reconnect' handler
\* only shows a toast and is raised by the transport's manager, not by the
\* session the handler is attached to; it is left out.
\* 'connect': the handshake of session s is acknowledged. The transport's own
\* retry count starts over and its send buffer is flushed; the handler, while
\* still attached, sets the flags and registers the wire handlers once more
\* on this.socket.
OnConnect(s) ==
    /\ s \in 1..Len(sessions)
    /\ sessions[s].st = "opening"
    /\ LET S1 == [sessions EXCEPT ![s].st = "connected", ![s].fails = 0,
                                  ![s].buf = <<>>]
       IN IF sessions[s].handlers > 0
          THEN /\ socket # 0 => sessions[socket].handlers < MaxHandlers
               /\ isConnected' = TRUE
               /\ isConnecting' = FALSE
               /\ connectionAttempts' = 0
               /\ sessions' = reregisterListeners(S1, socket)
          ELSE /\ sessions' = S1
               /\ UNCHANGED <<isConnected, isConnecting, connectionAttempts>>
    /\ lastOp' = [Op("on_connect") EXCEPT
                      !.sess = s,
                      !.emitted = sessions[s].buf,
                      !.toast = IF sessions[s].handlers > 0 THEN ConnectToast
                                ELSE <<>>]
    /\ cycle' = IF sessions[s].handlers > 0 /\ cycle = "dropped"
                THEN "reconnected" ELSE cycle
    /\ forced' = (forced /\ sessions[s].handlers = 0)
    /\ UNCHANGED <<socket, listeners, timers>>

\* 'disconnect': a connected session is lost. After a server-side disconnect
\* the transport stays closed; after any other loss it retries by itself.
OnDisconnect(s, reason) ==
    /\ s \in 1..Len(sessions)
    /\ sessions[s].st = "connected"
    /\ sessions' = [sessions EXCEPT ![s].st =
                        IF reason = "io server disconnect" THEN "closed"
                        ELSE "opening"]
    /\ IF sessions[s].handlers > 0
       THEN /\ isConnected' = FALSE
            /\ isConnecting' = FALSE
       ELSE UNCHANGED <<isConnected, isConnecting>>
    /\ lastOp' = [Op("on_disconnect") EXCEPT
                      !.sess = s,
                      !.class = reason,
                      !.toast = IF sessions[s].handlers > 0
                                THEN DisconnectToast(reason) ELSE <<>>]
    /\ cycle' = IF sessions[s].handlers > 0 THEN "dropped" ELSE cycle
    /\ UNCHANGED <<socket, connectionAttempts, listeners, timers, forced>>

\* 'connect_error': an attempt of session s failed. The server refusing the
\* handshake (denied) ends the session; a network failure is retried until the
\* transport has used up its retries, then it gives up.
OnConnectError(s, denied) ==
    /\ s \in 1..Len(sessions)
    /\ sessions[s].st = "opening"
    /\ sessions' = [sessions EXCEPT
                        ![s].fails = IF denied THEN @ ELSE @ + 1,
                        ![s].st = IF denied THEN "closed"
                                  ELSE IF sessions[s].fails + 1 > reconnectionAttempts
                                       THEN "failed" ELSE "opening"]
    /\ IF sessions[s].handlers > 0
       THEN /\ isConnecting' = FALSE
            /\ connectionAttempts' = connectionAttempts + 1
       ELSE UNCHANGED <<isConnecting, connectionAttempts>>
    /\ lastOp' = [Op("on_connect_error") EXCEPT
                      !.sess = s,
                      !.toast = IF sessions[s].handlers > 0
                                THEN ConnectErrorToast(connectionAttempts + 1)
                                ELSE <<>>]
    /\ UNCHANGED <<socket, isConnected, listeners, timers, forced, cycle>>

\* 'reconnect_failed': the transport reports that it gave up.
OnReconnectFailed(s) ==
    /\ s \in 1..Len(sessions)
    /\ sessions[s].st = "failed"
    /\ sessions' = [sessions EXCEPT ![s].st = "closed"]
    /\ IF sessions[s].handlers > 0
       THEN isConnecting' = FALSE
       ELSE UNCHANGED isConnecting
    /\ lastOp' = [Op("on_reconnect_failed") EXCEPT
                      !.sess = s,
                      !.toast = IF sessions[s].handlers > 0
                                THEN ReconnectFailedToast ELSE <<>>]
    /\ UNCHANGED <<socket, isConnected, connectionAttempts, listeners, timers,
                   forced, cycle>>

\* --------------------------------------------------------- outbound actions
\* The test `this.socket?.connected` of startViewingFile, stopViewingFile,
\* emit and getOnlineUsers.
CanSendUnguarded == socket # 0

CanSend == SocketConnected

\* The shared shape of the guarded senders: emit on this.socket when the test
\* passes, otherwise only a console warning.
Send(name, msg) ==
    /\ IF CanSend
       THEN LET r == SocketEmit(sessions, socket, msg)
            IN /\ sessions' = r.sessions
               /\ lastOp' = [Op(name) EXCEPT !.msg = msg, !.emitted = r.wire,
                                             !.wasConnected = SocketConnected,
                                             !.sess = socket]
       ELSE /\ sessions' = sessions
            /\ lastOp' = [Op(name) EXCEPT !.msg = msg,
                                          !.wasConnected = SocketConnected,
                                          !.sess = socket]
    /\ UNCHANGED <<socket, isConnected, isConnecting, connectionAttempts,
                   listeners, timers, forced, cycle>>

StartViewingFile(fileId) ==
    Send("startViewingFile", <<"start-viewing-file", fileId>>)

StopViewingFile(fileId) ==
    Send("stopViewingFile", <<"stop-viewing-file", fileId>>)

\* emit(event, data), here as startEditingFile(fileId) calls it.
Emit(fileId) ==
    Send("emit", <<"start-editing-file", fileId>>)

OutboundOps == {"startViewingFile", "stopViewingFile", "emit"}

\* getOnlineUsers() called n times in a row: the sessions afterwards and what
\* went out on the wire.
RECURSIVE getOnlineUsers(_, _, _)
getOnlineUsers(n, S, wire) ==
    IF n = 0 THEN [sessions |-> S, wire |-> wire]
    ELSE IF CanSend
         THEN LET r == SocketEmit(S, socket, <<"get-online-users">>)
              IN getOnlineUsers(n - 1, r.sessions, wire \o r.wire)
         ELSE getOnlineUsers(n - 1, S, wire)

\* The server greets session s with its 'connected' event: every handler
\* setupEventListeners attached for it calls getOnlineUsers().
InboundConnected(s) ==
    /\ s \in 1..Len(sessions)
    /\ sessions[s].st = "connected"
    /\ sessions[s].handlers > 0
    /\ LET r == getOnlineUsers(sessions[s].handlers, sessions, <<>>)
       IN /\ sessions' = r.sessions
          /\ lastOp' = [Op("inbound_connected") EXCEPT
                            !.sess = s,
                            !.emitted = r.wire,
                            !.wasConnected = SocketConnected]
    /\ UNCHANGED <<socket, isConnected, isConnecting, connectionAttempts,
                   listeners, timers, forced, cycle>>

\* ------------------------------------------------------- the listener table
\* Array.prototype.indexOf: the first index holding cb, 0 when there is none.
IndexOf(list, cb) ==
    IF \E i \in 1..Len(list) : list[i] = cb
    THEN CHOOSE i \in 1..Len(list) :
             list[i] = cb /\ \A j \in 1..(i - 1) : list[j] # cb
    ELSE 0

\* Array.prototype.splice(index, 1).
Splice(list, i) ==
    SubSeq(list, 1, i - 1) \o SubSeq(list, i + 1, Len(list))

\* on(event, callback) on a table L.
on(L, c, cb) == [L EXCEPT ![c] = Append(@, cb)]

\* A faulty off: filters every occurrence out.
offAll(L, c, cb) == [L EXCEPT ![c] = SelectSeq(@, LAMBDA x : x # cb)]

\* off(event, callback) on a table L.
off(L, c, cb) ==
    LET index == IndexOf(L[c], cb)
    IN IF index > 0 THEN [L EXCEPT ![c] = Splice(@, index)] ELSE L

\* What invoking callback cb does during a dispatch of class c: the table
\* afterwards, whether the callback threw, and which callbacks it took out
\* of the table with off.
Invoke(cb, c, L) ==
    CASE cb = "plain"    -> [listeners |-> L, threw |-> FALSE, removed |-> {}]
      [] cb = "thrower"  -> [listeners |-> L, threw |-> TRUE, removed |-> {}]
      [] cb = "offSelf"  -> [listeners |-> off(L, c, "offSelf"), threw |-> FALSE,
                             removed |-> {"offSelf"}]
      [] cb = "onPlain"  -> [listeners |-> on(L, c, "plain"), threw |-> FALSE,
                             removed |-> {}]
      [] cb \in ProviderHandlers ->
             [listeners |-> L, threw |-> FALSE, removed |-> {}]

\* callbacks.forEach(...) of triggerEvent from index k on: the length n is read
\* once, an index the array no longer has is passed over, and each callback
\* runs inside try/catch when catching, else its throw ends the loop.
RECURSIVE ForEach(_, _, _, _, _)
ForEach(k, n, c, acc, catching) ==
    IF k > n \/ acc.propagated THEN acc
    ELSE IF k > Len(acc.listeners[c]) THEN ForEach(k + 1, n, c, acc, catching)
    ELSE LET cb == acc.listeners[c][k]
             r  == Invoke(cb, c, acc.listeners)
         IN ForEach(k + 1, n, c,
                    [listeners  |-> r.listeners,
                     calls      |-> Append(acc.calls, cb),
                     errors     |-> acc.errors + (IF r.threw THEN 1 ELSE 0),
                     removed    |-> acc.removed \cup r.removed,
                     propagated |-> r.threw /\ ~catching],
                    catching)

\* A faulty triggerEvent: no try/catch around the callback.
triggerEventNoCatch(L, c) ==
    ForEach(1, Len(L[c]), c,
            [listeners |-> L, calls |-> <<>>, errors |-> 0, removed |-> {},
             propagated |-> FALSE],
            FALSE)

\* triggerEvent(event, data) on a table L.
triggerEvent(L, c) ==
    ForEach(1, Len(L[c]), c,
            [listeners |-> L, calls |-> <<>>, errors |-> 0, removed |-> {},
             propagated |-> FALSE],
            TRUE)

\* An inbound wire event runs every handler setupEventListeners attached for
\* it, and each handler calls triggerEvent once: n dispatches in a row.
\* Returns the table afterwards and the record of each dispatch.
RECURSIVE Deliver(_, _, _, _)
Deliver(n, c, L, done) ==
    IF n = 0 THEN [listeners |-> L, dispatches |-> done]
    ELSE LET r == triggerEvent(L, c)
         IN Deliver(n - 1, c, r.listeners,
                    Append(done, [start |-> L[c], calls |-> r.calls,
                                  end |-> r.listeners[c],
                                  table |-> r.listeners, before |-> L,
                                  errors |-> r.errors, removed |-> r.removed,
                                  propagated |-> r.propagated]))

OnCall(c, cb, max) ==
    /\ TotalRegs(listeners) < max
    /\ listeners' = on(listeners, c, cb)
    /\ lastOp' = [Op("on") EXCEPT !.class = c, !.cb = cb]
    /\ cycle' = "none"
    /\ UNCHANGED <<socket, sessions, isConnected, isConnecting,
                   connectionAttempts, timers, forced>>

OffCall(c, cb) ==
    /\ listeners' = off(listeners, c, cb)
    /\ lastOp' = [Op("off") EXCEPT !.class = c, !.cb = cb]
    /\ cycle' = "none"
    /\ UNCHANGED <<socket, sessions, isConnected, isConnecting,
                   connectionAttempts, timers, forced>>

\* The server sends wire event w on session s.
Inbound(s, w, max) ==
    /\ s \in 1..Len(sessions)
    /\ sessions[s].st = "connected"
    /\ sessions[s].handlers > 0
    /\ LET r == Deliver(sessions[s].handlers, LocalClass(w), listeners, <<>>)
       IN /\ TotalRegs(r.listeners) <= max
          /\ listeners' = r.listeners
          /\ lastOp' = [Op("inbound") EXCEPT !.class = LocalClass(w), !.sess = s,
                                             !.dispatches = r.dispatches,
                                             !.afterCycle = (cycle = "reconnected")]
          /\ cycle' = IF cycle = "reconnected" \/ r.listeners # listeners
                      THEN "none" ELSE cycle
    /\ UNCHANGED <<socket, sessions, isConnected, isConnecting,
                   connectionAttempts, timers, forced>>

\* =========================================================== ViewingContext
\* The client's presence cache (src/frontend/src/contexts/ViewingContext.tsx).
\* A state is a value: fileViewers is the Map as a function from the file ids
\* it has to their FileViewers entries. The reducer copies the Map but not
\* the entries, so an entry it takes out of the copy is the object the
\* previous state holds too: each case returns the state it returns (next)
\* and what the state it was given reads afterwards (prev).
Users == {"u1", "u2"}

Null == "null"

\* ViewerInfo: the identity and the connection the entry came from.
Viewers == [id : Users, socketId : 1..MaxSocketIds]

ViewerLists == UNION {[1..n -> Viewers] : n \in 0..MaxList}

EmptyMap == <<>>

\* Map.prototype.set and Map.prototype.delete.
MapSet(m, k, v) == [g \in DOMAIN m \cup {k} |-> IF g = k THEN v ELSE m[g]]

MapDelete(m, k) == [g \in DOMAIN m \ {k} |-> m[g]]

initialState == [fileViewers |-> EmptyMap, currentlyViewing |-> Null]

\* Array.prototype.findIndex((v) => v.id === id): 0 stands for -1.
FindIndex(list, id) ==
    IF \E i \in 1..Len(list) : list[i].id = id
    THEN CHOOSE i \in 1..Len(list) :
             list[i].id = id /\ \A j \in 1..(i - 1) : list[j].id # id
    ELSE 0

\* A faulty SET_FILE_VIEWERS: adds the list to the one the entry has.
SetFileViewersMerge(state, fileId, viewers, t) ==
    LET old == IF fileId \in DOMAIN state.fileViewers
               THEN state.fileViewers[fileId].viewers ELSE <<>>
    IN [next |-> [state EXCEPT !.fileViewers =
                      MapSet(@, fileId, [fileId |-> fileId,
                                         viewers |-> old \o viewers,
                                         lastUpdated |-> t])],
        prev |-> state]

\* case 'SET_FILE_VIEWERS'
SetFileViewers(state, fileId, viewers, t) ==
    [next |-> [state EXCEPT !.fileViewers =
                   MapSet(@, fileId, [fileId |-> fileId, viewers |-> viewers,
                                      lastUpdated |-> t])],
     prev |-> state]

\* A faulty USER_STARTED_VIEWING: pushes without looking for the identity.
UserStartedViewingPush(state, fileId, viewer, t) ==
    LET had == fileId \in DOMAIN state.fileViewers
        currentViewers == IF had THEN state.fileViewers[fileId]
                          ELSE [fileId |-> fileId, viewers |-> <<>>,
                                lastUpdated |-> t]
        entry == [currentViewers EXCEPT !.viewers = Append(@, viewer),
                                        !.lastUpdated = t]
        after == [state EXCEPT !.fileViewers = MapSet(@, fileId, entry)]
    IN [next |-> after, prev |-> IF had THEN after ELSE state]

\* case 'USER_STARTED_VIEWING': push and the indexed assignment work on the
\* viewers array of the entry taken from the copied Map.
UserStartedViewing(state, fileId, viewer, t) ==
    LET had == fileId \in DOMAIN state.fileViewers
        currentViewers == IF had THEN state.fileViewers[fileId]
                          ELSE [fileId |-> fileId, viewers |-> <<>>,
                                lastUpdated |-> t]
        existingViewerIndex == FindIndex(currentViewers.viewers, viewer.id)
        viewers == IF existingViewerIndex = 0
                   THEN Append(currentViewers.viewers, viewer)
                   ELSE [currentViewers.viewers EXCEPT
                             ![existingViewerIndex] = viewer]
        entry == [currentViewers EXCEPT !.viewers = viewers,
                                        !.lastUpdated = t]
        after == [state EXCEPT !.fileViewers = MapSet(@, fileId, entry)]
    IN [next |-> after, prev |-> IF had THEN after ELSE state]

\* case 'USER_STOPPED_VIEWING': the filtered array and the date are assigned
\* to the entry taken from the copied Map; the delete is on the copy only.
UserStoppedViewing(state, fileId, userId, t) ==
    IF fileId \in DOMAIN state.fileViewers
    THEN LET currentViewers == state.fileViewers[fileId]
             entry == [currentViewers EXCEPT
                           !.viewers = SelectSeq(@, LAMBDA v : v.id # userId),
                           !.lastUpdated = t]
         IN [next |-> [state EXCEPT !.fileViewers =
                           IF Len(entry.viewers) = 0
                           THEN MapDelete(@, fileId)
                           ELSE MapSet(@, fileId, entry)],
             prev |-> [state EXCEPT !.fileViewers = MapSet(@, fileId, entry)]]
    ELSE [next |-> state, prev |-> state]

\* case 'SET_CURRENTLY_VIEWING'
SetCurrentlyViewing(state, payload) ==
    [next |-> [state EXCEPT !.currentlyViewing = payload], prev |-> state]

\* case 'CLEAR_FILE_VIEWERS'
ClearFileViewers(state, fileId) ==
    [next |-> [state EXCEPT !.fileViewers = MapDelete(@, fileId)],
     prev |-> state]

\* viewingReducer(state, action) at time t; the payload of the action is its
\* file id and, by type, the viewer list, the viewer or the user id.
viewingReducer(state, type, fileId, arg, t) ==
    CASE type = "SET_FILE_VIEWERS" -> SetFileViewers(state, fileId, arg, t)
      [] type = "USER_STARTED_VIEWING" ->
             UserStartedViewing(state, fileId, arg, t)
      [] type = "USER_STOPPED_VIEWING" ->
             UserStoppedViewing(state, fileId, arg, t)
      [] type = "SET_CURRENTLY_VIEWING" -> SetCurrentlyViewing(state, fileId)
      [] type = "CLEAR_FILE_VIEWERS" -> ClearFileViewers(state, fileId)
      [] OTHER -> [next |-> state, prev |-> state]

\* getFileViewers(fileId) on a state.
getFileViewers(state, fileId) ==
    IF fileId \in DOMAIN state.fileViewers
    THEN state.fileViewers[fileId].viewers ELSE <<>>

\* The record of one reducer call: the action, whether it repeats the action
\* of the call before it, the state it was given as it read before the call
\* (was) and as it reads after it (prev).
Reduced(type, fileId, who, viewers, was, prev) ==
    [type |-> type, fileId |-> fileId, who |-> who, viewers |-> viewers,
     replay |-> (/\ red.type = type /\ red.fileId = fileId
                 /\ red.who = who /\ red.viewers = viewers),
     was |-> was, prev |-> prev]

\* dispatch(action): the reducer runs on the state useReducer holds.
DispatchSetFileViewers(fileId, viewers) ==
    LET r == viewingReducer(view, "SET_FILE_VIEWERS", fileId, viewers, now)
    IN /\ view' = r.next
       /\ red' = Reduced("SET_FILE_VIEWERS", fileId, Null, viewers, view, r.prev)

DispatchUserStartedViewing(fileId, viewer) ==
    LET r == viewingReducer(view, "USER_STARTED_VIEWING", fileId, viewer, now)
    IN /\ view' = r.next
       /\ red' = Reduced("USER_STARTED_VIEWING", fileId, viewer.id, <<viewer>>,
                         view, r.prev)

DispatchUserStoppedViewing(fileId, userId) ==
    LET r == viewingReducer(view, "USER_STOPPED_VIEWING", fileId, userId, now)
    IN /\ view' = r.next
       /\ red' = Reduced("USER_STOPPED_VIEWING", fileId, userId, <<>>,
                         view, r.prev)

DispatchSetCurrentlyViewing(payload) ==
    LET r == viewingReducer(view, "SET_CURRENTLY_VIEWING", payload, Null, now)
    IN /\ view' = r.next
       /\ red' = Reduced("SET_CURRENTLY_VIEWING", payload, Null, <<>>,
                         view, r.prev)

DispatchClearFileViewers(fileId) ==
    LET r == viewingReducer(view, "CLEAR_FILE_VIEWERS", fileId, Null, now)
    IN /\ view' = r.next
       /\ red' = Reduced("CLEAR_FILE_VIEWERS", fileId, Null, <<>>, view, r.prev)

\* Time passes between two calls of new Date().
Tick ==
    /\ now < MaxClock
    /\ now' = now + 1
    /\ UNCHANGED <<serviceVars, view, red, lastStart, provider>>

\* ---------------------------------------------------------- ViewingProvider
\* After a render React runs the cleanups of the effects whose dependencies
\* changed and then their bodies, with no other code in between: the steps
\* are queued in provider.todo and nothing else runs until the queue is empty.
Idle == provider.todo = <<>>

\* A render, with a the truth of (user && token) that useAuth() returns. The
\* callbacks and effects it creates read the state of this render; the
\* connection effect depends on [user, token] and the listener effect on the
\* value socketService.connected has during the render.
Render(a) ==
    /\ Idle
    /\ LET run1 == ~provider.mounted \/ a # provider.auth
           run2 == ~provider.mounted \/ connected # provider.dep
       IN /\ (run1 /\ a) => Len(sessions) < MaxSessions
          /\ provider' =
                 [provider EXCEPT
                      !.mounted = TRUE,
                      !.auth = a,
                      !.closure = view.currentlyViewing,
                      !.dep = connected,
                      !.todo =
                          (IF provider.mounted /\ run1
                           THEN <<"connCleanup">> ELSE <<>>)
                          \o (IF provider.mounted /\ run2 /\ provider.registered
                              THEN <<"listenerCleanup">> ELSE <<>>)
                          \o (IF run1 THEN <<"connEffect">> ELSE <<>>)
                          \o (IF run2 THEN <<"listenerEffect">> ELSE <<>>)]
    /\ UNCHANGED <<serviceVars, view, now, red, lastStart>>

\* Guarded sends of msgs in a row, each behind this.socket?.connected: the
\* sessions afterwards and what went out on the wire.
RECURSIVE GuardedSends(_, _, _)
GuardedSends(msgs, S, wire) ==
    IF msgs = <<>> THEN [sessions |-> S, wire |-> wire]
    ELSE IF CanSend
         THEN LET r == SocketEmit(S, socket, Head(msgs))
              IN GuardedSends(Tail(msgs), r.sessions, wire \o r.wire)
         ELSE GuardedSends(Tail(msgs), S, wire)

\* The files the server has been told this client views, after the messages
\* of wire went out.
RECURSIVE Announced(_, _)
Announced(files, wire) ==
    IF wire = <<>> THEN files
    ELSE Announced(IF Head(wire)[1] = "start-viewing-file"
                   THEN files \cup {Head(wire)[2]}
                   ELSE files \ {Head(wire)[2]},
                   Tail(wire))

\* The cleanup of the connection effect: stopViewingFile for the file the
\* state of the effect's own render was viewing, then disconnect().
ConnCleanup ==
    /\ ~Idle
    /\ Head(provider.todo) = "connCleanup"
    /\ LET stop == IF provider.cleanupViewing # Null
                   THEN GuardedSends(
                            << <<"stop-viewing-file", provider.cleanupViewing>> >>,
                            sessions, <<>>)
                   ELSE [sessions |-> sessions, wire |-> <<>>]
       IN lastOp' = [Op("disconnect") EXCEPT !.sess = socket,
                                             !.emitted = stop.wire,
                                             !.toast = TeardownToast]
    /\ DisconnectBody
    /\ cycle' = "none"
    /\ provider' = [provider EXCEPT !.todo = Tail(@), !.outstanding = {}]
    /\ UNCHANGED <<connectionAttempts, timers, forced, view, now, red,
                   lastStart>>

\* The cleanup of the listener effect: off for its three handlers.
ListenerCleanup ==
    /\ ~Idle
    /\ Head(provider.todo) = "listenerCleanup"
    /\ listeners' =
           off(off(off(listeners,
                       "file-viewers-updated", "handleFileViewersUpdated"),
                   "user-started-viewing-file", "handleUserStartedViewing"),
               "user-stopped-viewing-file", "handleUserStoppedViewing")
    /\ lastOp' = Op("listenerCleanup")
    /\ cycle' = "none"
    /\ provider' = [provider EXCEPT !.todo = Tail(@), !.registered = FALSE]
    /\ UNCHANGED <<socket, sessions, isConnected, isConnecting,
                   connectionAttempts, timers, forced, view, now, red,
                   lastStart>>

\* The body of the connection effect: connect(token) when user and token are
\* there. Its cleanup will read the state of this render.
ConnEffect ==
    /\ ~Idle
    /\ Head(provider.todo) = "connEffect"
    /\ IF provider.auth
       THEN ConnectBody("connect")
       ELSE /\ lastOp' = Op("connEffect")
            /\ UNCHANGED <<socket, sessions, isConnected, isConnecting,
                           connectionAttempts, listeners>>
    /\ provider' = [provider EXCEPT !.todo = Tail(@),
                                    !.cleanupViewing = provider.closure]
    /\ UNCHANGED <<timers, forced, cycle, view, now, red, lastStart>>

\* The body of the listener effect: returns at once unless
\* socketService.connected, else registers its three handlers.
ListenerEffect ==
    /\ ~Idle
    /\ Head(provider.todo) = "listenerEffect"
    /\ IF ~connected
       THEN /\ provider' = [provider EXCEPT !.todo = Tail(@),
                                            !.registered = FALSE]
            /\ UNCHANGED <<listeners, cycle>>
       ELSE /\ listeners' =
                   on(on(on(listeners,
                            "file-viewers-updated", "handleFileViewersUpdated"),
                         "user-started-viewing-file", "handleUserStartedViewing"),
                      "user-stopped-viewing-file", "handleUserStoppedViewing")
            /\ cycle' = "none"
            /\ provider' = [provider EXCEPT !.todo = Tail(@),
                                            !.registered = TRUE]
    /\ lastOp' = Op("listenerEffect")
    /\ UNCHANGED <<socket, sessions, isConnected, isConnecting,
                   connectionAttempts, timers, forced, view, now, red,
                   lastStart>>

\* startViewing(fileId) of the provider, as the last render created it.
StartViewing(fileId) ==
    /\ Idle
    /\ provider.mounted
    /\ LET current == provider.closure
           msgs == (IF current # Null /\ current # fileId
                    THEN << <<"stop-viewing-file", current>> >> ELSE <<>>)
                   \o << <<"start-viewing-file", fileId>> >>
           r == GuardedSends(msgs, sessions, <<>>)
       IN /\ sessions' = r.sessions
          /\ lastOp' = [Op("startViewing") EXCEPT
                            !.msg = <<"start-viewing-file", fileId>>,
                            !.emitted = r.wire,
                            !.wasConnected = SocketConnected,
                            !.sess = socket]
          /\ provider' = [provider EXCEPT
                              !.outstanding = Announced(@, r.wire)]
    /\ DispatchSetCurrentlyViewing(fileId)
    /\ UNCHANGED <<socket, isConnected, isConnecting, connectionAttempts,
                   listeners, timers, forced, cycle, now, lastStart>>

\* stopViewing(fileId) of the provider, as the last render created it.
StopViewing(fileId) ==
    /\ Idle
    /\ provider.mounted
    /\ LET r == GuardedSends(<< <<"stop-viewing-file", fileId>> >>,
                             sessions, <<>>)
       IN /\ sessions' = r.sessions
          /\ lastOp' = [Op("stopViewing") EXCEPT
                            !.msg = <<"stop-viewing-file", fileId>>,
                            !.emitted = r.wire,
                            !.wasConnected = SocketConnected,
                            !.sess = socket]
          /\ provider' = [provider EXCEPT
                              !.outstanding = Announced(@, r.wire)]
    /\ IF provider.closure = fileId
       THEN DispatchSetCurrentlyViewing(Null)
       ELSE UNCHANGED <<view, red>>
    /\ UNCHANGED <<socket, isConnected, isConnecting, connectionAttempts,
                   listeners, timers, forced, cycle, now, lastStart>>

\* How often the dispatches ds invoked callback cb.
RECURSIVE Invocations(_, _)
Invocations(ds, cb) ==
    IF ds = <<>> THEN 0
    ELSE Cardinality({j \in 1..Len(Head(ds).calls) : Head(ds).calls[j] = cb})
         + Invocations(Tail(ds), cb)

\* n calls of viewingReducer with the same action, from state on: the state
\* returned by the last call, and what that call was given and left.
RECURSIVE Replay(_, _, _, _, _, _)
Replay(n, state, type, fileId, arg, t) ==
    LET r == viewingReducer(state, type, fileId, arg, t)
    IN IF n <= 1 THEN [next |-> r.next, was |-> state, prev |-> r.prev]
       ELSE Replay(n - 1, r.next, type, fileId, arg, t)

\* A handler of the provider invoked n times with the same event data: one
\* dispatch of the action per invocation.
HandlerDispatches(n, type, fileId, who, viewers, arg) ==
    IF n = 0 THEN UNCHANGED <<view, red>>
    ELSE LET r == Replay(n, view, type, fileId, arg, now)
         IN /\ view' = r.next
            /\ red' = [Reduced(type, fileId, who, viewers, r.was, r.prev)
                           EXCEPT !.replay = @ \/ n > 1]

\* The server sends a presence event of class c on session s: every wire
\* handler of the session runs triggerEvent(c, data), and each invocation of
\* the provider's handler cb dispatches the action to the reducer.
InboundViewing(s, c, cb, type, fileId, who, viewers, arg) ==
    /\ s \in 1..Len(sessions)
    /\ sessions[s].st = "connected"
    /\ sessions[s].handlers > 0
    /\ LET r == Deliver(sessions[s].handlers, c, listeners, <<>>)
       IN /\ listeners' = r.listeners
          /\ lastOp' = [Op("inbound") EXCEPT
                            !.class = c,
                            !.sess = s,
                            !.msg = <<c, fileId, viewers>>,
                            !.dispatches = r.dispatches,
                            !.afterCycle = (cycle = "reconnected")]
          /\ cycle' = IF cycle = "reconnected" \/ r.listeners # listeners
                      THEN "none" ELSE cycle
          /\ HandlerDispatches(Invocations(r.dispatches, cb), type, fileId,
                               who, viewers, arg)
    /\ UNCHANGED <<socket, sessions, isConnected, isConnecting,
                   connectionAttempts, timers, forced, now, lastStart,
                   provider>>

InboundFileViewersUpdated(s, fileId, viewers) ==
    InboundViewing(s, "file-viewers-updated", "handleFileViewersUpdated",
                   "SET_FILE_VIEWERS", fileId, Null, viewers, viewers)

InboundUserStartedViewing(s, fileId, viewer) ==
    InboundViewing(s, "user-started-viewing-file", "handleUserStartedViewing",
                   "USER_STARTED_VIEWING", fileId, viewer.id, <<viewer>>, viewer)

InboundUserStoppedViewing(s, fileId, userId) ==
    InboundViewing(s, "user-stopped-viewing-file", "handleUserStoppedViewing",
                   "USER_STOPPED_VIEWING", fileId, userId, <<>>, userId)

\* ------------------------------------------------------------------- spec
Init ==
    /\ socket = 0
    /\ sessions = <<>>
    /\ isConnected = FALSE
    /\ isConnecting = FALSE
    /\ connectionAttempts = 0
    /\ listeners = NoListeners
    /\ timers = 0
    /\ forced = FALSE
    /\ cycle = "none"
    /\ lastOp = Op("init")
    /\ view = initialState
    /\ now = 0
    /\ red = [type |-> "init", fileId |-> Null, who |-> Null, viewers |-> <<>>,
              replay |-> FALSE, was |-> initialState, prev |-> initialState]
    /\ lastStart = [f \in Files |-> [u \in Users |-> 0]]
    /\ provider = [mounted |-> FALSE, auth |-> FALSE, closure |-> Null,
                   cleanupViewing |-> Null, dep |-> FALSE,
                   registered |-> FALSE, todo |-> <<>>, outstanding |-> {}]

Next ==
    \/ Connect /\ UNCHANGED viewVars
    \/ Disconnect /\ UNCHANGED viewVars
    \/ ForceReconnect /\ UNCHANGED viewVars
    \/ TimerFires /\ UNCHANGED viewVars
    \/ \E s \in 1..MaxSessions : OnConnect(s) /\ UNCHANGED viewVars
    \/ \E s \in 1..MaxSessions :
           \E reason \in {"transport close", "io server disconnect"} :
               OnDisconnect(s, reason) /\ UNCHANGED viewVars
    \/ \E s \in 1..MaxSessions : \E denied \in BOOLEAN :
           OnConnectError(s, denied) /\ UNCHANGED viewVars
    \/ \E s \in 1..MaxSessions : OnReconnectFailed(s) /\ UNCHANGED viewVars
    \/ \E f \in Files : StartViewingFile(f) /\ UNCHANGED viewVars
    \/ \E f \in Files : StopViewingFile(f) /\ UNCHANGED viewVars
    \/ \E f \in Files : Emit(f) /\ UNCHANGED viewVars
    \/ \E c \in Classes : \E cb \in LifecycleCallbacks :
           OnCall(c, cb, MaxRegs) /\ UNCHANGED viewVars
    \/ \E c \in Classes : \E cb \in LifecycleCallbacks :
           OffCall(c, cb) /\ UNCHANGED viewVars
    \/ \E s \in 1..MaxSessions : \E w \in WireEvents :
           Inbound(s, w, MaxRegs) /\ UNCHANGED viewVars
    \/ \E s \in 1..MaxSessions : InboundConnected(s) /\ UNCHANGED viewVars

Spec == Init /\ [][Next]_vars

\* The listener table and its dispatch under one session that connects: on,
\* off and inbound events with every kind of callback.
NextRouter ==
    \/ Connect /\ UNCHANGED viewVars
    \/ \E s \in 1..MaxSessions : OnConnect(s) /\ UNCHANGED viewVars
    \/ \E c \in Classes : \E cb \in Callbacks :
           OnCall(c, cb, MaxRouterRegs) /\ UNCHANGED viewVars
    \/ \E c \in Classes : \E cb \in Callbacks :
           OffCall(c, cb) /\ UNCHANGED viewVars
    \/ \E s \in 1..MaxSessions : \E w \in WireEvents :
           Inbound(s, w, MaxRouterRegs) /\ UNCHANGED viewVars

SpecRouter == Init /\ [][NextRouter]_vars

\* The same with sessions that drop and reconnect, or are replaced, under the
\* table.
NextCycle ==
    \/ Connect /\ UNCHANGED viewVars
    \/ \E s \in 1..MaxSessions : OnConnect(s) /\ UNCHANGED viewVars
    \/ \E s \in 1..MaxSessions :
           \E reason \in {"transport close", "io server disconnect"} :
               OnDisconnect(s, reason) /\ UNCHANGED viewVars
    \/ \E c \in Classes : \E cb \in Callbacks :
           OnCall(c, cb, MaxRouterRegs) /\ UNCHANGED viewVars
    \/ \E c \in Classes : \E cb \in Callbacks :
           OffCall(c, cb) /\ UNCHANGED viewVars
    \/ \E s \in 1..MaxSessions : \E w \in WireEvents :
           Inbound(s, w, MaxRouterRegs) /\ UNCHANGED viewVars

SpecCycle == Init /\ [][NextCycle]_vars

\* viewingReducer alone, fed every action the provider can dispatch.
NextReducer ==
    \/ \E f \in Files : \E vs \in ViewerLists :
           DispatchSetFileViewers(f, vs)
               /\ UNCHANGED <<serviceVars, now, lastStart, provider>>
    \/ \E f \in Files : \E v \in Viewers :
           DispatchUserStartedViewing(f, v)
               /\ UNCHANGED <<serviceVars, now, lastStart, provider>>
    \/ \E f \in Files : \E u \in Users :
           DispatchUserStoppedViewing(f, u)
               /\ UNCHANGED <<serviceVars, now, lastStart, provider>>
    \/ \E f \in Files \cup {Null} :
           DispatchSetCurrentlyViewing(f)
               /\ UNCHANGED <<serviceVars, now, lastStart, provider>>
    \/ \E f \in Files :
           DispatchClearFileViewers(f)
               /\ UNCHANGED <<serviceVars, now, lastStart, provider>>
    \/ Tick

SpecReducer == Init /\ [][NextReducer]_vars

\* viewingReducer fed only the start and stop events of other users, with
\* the last start of every user on every file kept beside it.
NextPresence ==
    \/ \E f \in Files : \E v \in Viewers :
           /\ DispatchUserStartedViewing(f, v)
           /\ lastStart' = [lastStart EXCEPT ![f][v.id] = v.socketId]
           /\ UNCHANGED <<serviceVars, now, provider>>
    \/ \E f \in Files : \E u \in Users :
           /\ DispatchUserStoppedViewing(f, u)
           /\ lastStart' = [lastStart EXCEPT ![f][u] = 0]
           /\ UNCHANGED <<serviceVars, now, provider>>
    \/ Tick

SpecPresence == Init /\ [][NextPresence]_vars

\* The ViewingProvider over the service: renders and their effects, the
\* session connecting and dropping, and the presence events of the server.
NextView ==
    \/ \E a \in BOOLEAN : Render(a)
    \/ ConnCleanup
    \/ ListenerCleanup
    \/ ConnEffect
    \/ ListenerEffect
    \/ \E s \in 1..MaxSessions : Idle /\ OnConnect(s) /\ UNCHANGED viewVars
    \/ \E s \in 1..MaxSessions :
           \E reason \in {"transport close", "io server disconnect"} :
               /\ Idle
               /\ OnDisconnect(s, reason)
               /\ provider' = [provider EXCEPT
                                   !.outstanding = IF s = socket THEN {} ELSE @]
               /\ UNCHANGED <<view, now, red, lastStart>>
    \/ \E s \in 1..MaxSessions : \E f \in Files : \E vs \in ViewerLists :
           Idle /\ InboundFileViewersUpdated(s, f, vs)
    \/ \E s \in 1..MaxSessions : \E f \in Files : \E v \in Viewers :
           Idle /\ InboundUserStartedViewing(s, f, v)
    \/ \E s \in 1..MaxSessions : \E f \in Files : \E u \in Users :
           Idle /\ InboundUserStoppedViewing(s, f, u)

SpecView == Init /\ [][NextView]_vars

\* The same provider with the user's startViewing and stopViewing instead of
\* the events of the server.
NextSwitch ==
    \/ \E a \in BOOLEAN : Render(a)
    \/ ConnCleanup
    \/ ListenerCleanup
    \/ ConnEffect
    \/ ListenerEffect
    \/ \E s \in 1..MaxSessions : Idle /\ OnConnect(s) /\ UNCHANGED viewVars
    \/ \E s \in 1..MaxSessions :
           \E reason \in {"transport close", "io server disconnect"} :
               /\ Idle
               /\ OnDisconnect(s, reason)
               /\ provider' = [provider EXCEPT
                                   !.outstanding = IF s = socket THEN {} ELSE @]
               /\ UNCHANGED <<view, now, red, lastStart>>
    \/ \E f \in Files : StartViewing(f)
    \/ \E f \in Files : StopViewing(f)

SpecSwitch == Init /\ [][NextSwitch]_vars

\* ================================================================ properties
Count(list, x) == Cardinality({i \in 1..Len(list) : list[i] = x})

Range(list) == {list[i] : i \in 1..Len(list)}

SessionIds == 1..Len(sessions)

\* this.socket is a session whose first attempt or retry is under way.
AttemptInFlight == socket # 0 /\ sessions[socket].st = "opening"

Dispatches == {lastOp.dispatches[i] : i \in 1..Len(lastOp.dispatches)}

\* C1: a connect(token) call made while an attempt of this.socket is in flight
\* (the transport still retrying included) or while this.socket is connected
\* is a no-op: it opens no session and leaves this.socket as it is.
C1_ConnectIsIdempotent ==
    [][(lastOp'.op = "connect" /\ (AttemptInFlight \/ SocketConnected))
           => (sessions' = sessions /\ socket' = socket)]_vars

\* C2: at most one session is live or retrying, and a session that is no
\* longer this.socket is neither live nor able to run the client's handlers.
C2_SingleSession ==
    \A s \in SessionIds :
        /\ \A r \in SessionIds : (Live(s) /\ Live(r)) => s = r
        /\ s # socket => ~(Live(s) /\ sessions[s].handlers > 0)

\* C3: on the first inbound event after a transport disconnect and the connect
\* that follows it, with the table as it was at the disconnect and no other
\* session alive, every callback of the event's class that off did not remove
\* is invoked.
C3_ListenersSurviveReconnect ==
    (/\ lastOp.op = "inbound"
     /\ lastOp.afterCycle
     /\ \A s \in SessionIds : s # lastOp.sess => ~Live(s))
        => LET first   == lastOp.dispatches[1]
               removed == UNION {d.removed : d \in Dispatches}
           IN \A cb \in Range(first.start) \ removed :
                  \E d \in Dispatches : cb \in Range(d.calls)

\* C4: while the attempt counter is at its maximum and forceReconnect has not
\* been called, shouldReconnect() is false and no session is live or retrying.
C4_PermanentFailure ==
    (PermFailed /\ ~forced)
        => (~shouldReconnect /\ \A s \in SessionIds : ~Live(s))

\* C5: forceReconnect called in the permanently-failed state leaves no session
\* behind and the attempt counter at zero.
C5_ForceReconnectResets ==
    [][(PermFailed /\ lastOp'.op = "forceReconnect")
           => (socket' = 0 /\ connectionAttempts' = 0)]_vars

\* C6: a guarded sender puts its message on the wire exactly once when
\* this.socket is connected and not at all otherwise; no session ever holds a
\* buffered message, so a later connect sends nothing of an earlier call.
C6_OutboundGuarded ==
    /\ lastOp.op \in OutboundOps
           => lastOp.emitted = (IF lastOp.wasConnected THEN <<lastOp.msg>>
                                ELSE <<>>)
    /\ \A s \in SessionIds : sessions[s].buf = <<>>
    /\ lastOp.op = "on_connect" => lastOp.emitted = <<>>

C6_Witness ==
    /\ lastOp.op = "startViewingFile"
    /\ ~lastOp.wasConnected
    /\ lastOp.sess # 0
    /\ sessions[lastOp.sess].st = "opening"

\* C7: a dispatch whose callbacks return or throw (none of them edits the
\* table) invokes every registration once, in registration order; each throw
\* is caught, the table is the same afterwards and nothing propagates.
C7_DispatchIsolatesThrows ==
    \A d \in Dispatches :
        (\A i \in 1..Len(d.start) : d.start[i] \notin Reentrant)
            => /\ d.calls = d.start
               /\ d.table = d.before
               /\ d.errors = Count(d.start, "thrower")
               /\ ~d.propagated

C7_Witness ==
    /\ lastOp.op = "inbound"
    /\ \E d \in Dispatches :
           /\ \A i \in 1..Len(d.start) : d.start[i] \notin Reentrant
           /\ \E i, j \in 1..Len(d.start) :
                  i < j /\ d.start[i] = "thrower" /\ d.start[j] = "plain"
           /\ d.calls = d.start

\* C8: a dispatch completes, and every callback registered when it started
\* that off did not remove is invoked once per registration.
C8_ReentrantSafe ==
    \A d \in Dispatches :
        /\ ~d.propagated
        /\ \A cb \in Callbacks \ d.removed :
               Count(d.calls, cb) = Count(d.start, cb)

\* C9: on appends the callback to its class even when it is there already;
\* off takes out the first occurrence only and keeps the order of the rest;
\* off of an absent callback changes nothing; other classes are untouched.
C9_OrderedSubscriptions ==
    [][/\ lastOp'.op = "on" =>
            /\ listeners'[lastOp'.class] =
                   listeners[lastOp'.class] \o <<lastOp'.cb>>
            /\ \A c \in Classes \ {lastOp'.class} : listeners'[c] = listeners[c]
       /\ lastOp'.op = "off" =>
            LET old == listeners[lastOp'.class]
                new == listeners'[lastOp'.class]
                hit == {i \in 1..Len(old) : old[i] = lastOp'.cb}
            IN /\ hit = {} => new = old
               /\ hit # {} =>
                    \E i \in hit :
                        /\ \A j \in hit : i <= j
                        /\ Len(new) = Len(old) - 1
                        /\ \A k \in 1..Len(new) :
                               new[k] = IF k < i THEN old[k] ELSE old[k + 1]
               /\ \A c \in Classes \ {lastOp'.class} : listeners'[c] = listeners[c]
      ]_vars

C9_Witness ==
    /\ lastOp.op = "off"
    /\ Count(listeners[lastOp.class], lastOp.cb) >= 1

\* C10: disconnect() leaves the client disconnected, without a session and
\* with an empty listener table, whatever state it was called in.
C10_TeardownClears ==
    lastOp.op = "disconnect"
        => /\ socket = 0
           /\ ~isConnected
           /\ ~isConnecting
           /\ listeners = NoListeners

\* C12: a connect_error raises the failure toast only when it takes the
\* client into the permanently-failed state, that is when it is the error
\* that brings the attempt counter to its maximum.
C12_SignalsOnTransitionsOnly ==
    (lastOp.op = "on_connect_error" /\ lastOp.toast # <<>>)
        => connectionAttempts = maxReconnectAttempts

\* C13: the 'disconnect' handler leaves both flags false and shows the
\* lost-connection toast exactly when the reason is not the client's own
\* teardown; disconnect() and forceReconnect() show no toast.
C13_LostConnectionSignal ==
    /\ (lastOp.op = "on_disconnect" /\ sessions[lastOp.sess].handlers > 0)
           => /\ ~isConnected
              /\ ~isConnecting
              /\ (lastOp.toast = <<"error: Disconnected from real-time server">>)
                     <=> (lastOp.class # "io client disconnect")
    /\ lastOp.op \in {"disconnect", "forceReconnect"} => lastOp.toast = <<>>

C13_Witness ==
    /\ lastOp.op = "on_disconnect"
    /\ lastOp.class = "transport close"
    /\ sessions[lastOp.sess].handlers > 0
    /\ lastOp.toast # <<>>

\* C14: when the server's 'connected' greeting arrives on this.socket, one
\* get-online-users request goes out on the wire.
C14_ResyncOnce ==
    (lastOp.op = "inbound_connected" /\ lastOp.sess = socket)
        => lastOp.emitted = << <<"get-online-users">> >>

Mapping(state) ==
    [f \in DOMAIN state.fileViewers |-> state.fileViewers[f].viewers]

\* C15: after a call of viewingReducer the state it was given reads as it did
\* before the call: its Map, every entry and every viewers list.
C15_NoInPlaceMutation == red.prev = red.was

\* C16: after any sequence of start and stop events from the initial state,
\* the viewer list of every file holds, for each user whose last event on the
\* file was a start, exactly the entry of that start and nothing else; a stop
\* for a user the list does not hold leaves every list as it was.
C16_ViewersFollowLastAction ==
    /\ \A f \in Files :
           LET list == getFileViewers(view, f)
           IN /\ \A i \in 1..Len(list) :
                     lastStart[f][list[i].id] = list[i].socketId
              /\ \A u \in Users :
                     Cardinality({i \in 1..Len(list) : list[i].id = u})
                         = (IF lastStart[f][u] > 0 THEN 1 ELSE 0)
    /\ (/\ red.type = "USER_STOPPED_VIEWING"
        /\ FindIndex(getFileViewers(red.was, red.fileId), red.who) = 0)
           => Mapping(view) = Mapping(red.was)

C16_Witness ==
    /\ red.type = "USER_STARTED_VIEWING"
    /\ Len(getFileViewers(view, red.fileId)) = 2
    /\ \E i \in 1..Len(getFileViewers(red.was, red.fileId)) :
           /\ getFileViewers(red.was, red.fileId)[i].id = red.who
           /\ getFileViewers(red.was, red.fileId)[i] # red.viewers[1]

\* C17: no entry of the cache has an empty viewer list.
C17_NoEmptyEntries ==
    \A f \in DOMAIN view.fileViewers : Len(view.fileViewers[f].viewers) > 0

\* C18: a SET_FILE_VIEWERS action that repeats the action before it leaves
\* the file-to-viewers mapping and currentlyViewing as they were, and every
\* SET_FILE_VIEWERS leaves the entries of the other files as they were.
C18_SetIdempotent ==
    red.type = "SET_FILE_VIEWERS"
        => /\ red.replay => /\ Mapping(view) = Mapping(red.was)
                            /\ view.currentlyViewing = red.was.currentlyViewing
           /\ view.currentlyViewing = red.was.currentlyViewing
           /\ \A g \in Files \ {red.fileId} :
                  /\ g \in DOMAIN view.fileViewers
                         <=> g \in DOMAIN red.was.fileViewers
                  /\ g \in DOMAIN view.fileViewers
                         => view.fileViewers[g] = red.was.fileViewers[g]

C18_Witness ==
    /\ red.type = "SET_FILE_VIEWERS"
    /\ red.replay
    /\ Len(red.viewers) > 0
    /\ view # red.was
    /\ DOMAIN view.fileViewers = Files

\* C11: once the session of the client has dropped, or the client has torn
\* it down, the cache holds no viewer of any file.
C11_CacheInvalidatedOnDisconnect ==
    (\/ lastOp.op = "on_disconnect" /\ lastOp.sess = socket
     \/ lastOp.op = "disconnect")
        => \A f \in Files : getFileViewers(view, f) = <<>>

\* C19: the server is never told that the client views two files at once.
C19_OneFileAtATime == Cardinality(provider.outstanding) <= 1

\* C20: after a file-viewers-updated event has arrived on the connected
\* session of the client, the cached viewer list of its file is the list of
\* the event.
C20_BroadcastMerged ==
    (/\ lastOp.op = "inbound"
     /\ lastOp.class = "file-viewers-updated"
     /\ lastOp.sess = socket)
        => getFileViewers(view, lastOp.msg[2]) = lastOp.msg[3]

\* C21: an inbound event is dispatched to the listener table once, so a
\* callback registered once for its class, in a table no callback edits, is
\* invoked once.
C21_DispatchedOnce ==
    lastOp.op = "inbound"
        => /\ Len(lastOp.dispatches) = 1
           /\ \A cb \in Callbacks \ Reentrant :
                  (/\ Count(lastOp.dispatches[1].start, cb) = 1
                   /\ \A x \in Range(lastOp.dispatches[1].start) :
                          x \notin Reentrant)
                      => Invocations(lastOp.dispatches, cb) = 1

\* C22: currentlyViewing names a file only while the server has been told, on
\* the session of the client, that the client views it; a startViewing whose
\* start-viewing-file was not sent leaves the pointer off that file.
C22_PointerAgreesWithWire ==
    /\ view.currentlyViewing # Null
           => view.currentlyViewing \in provider.outstanding
    /\ (lastOp.op = "startViewing" /\ lastOp.emitted = <<>>)
           => view.currentlyViewing # lastOp.msg[2]

====
